---- MODULE Spec2Model ----
(***************************************************************************)
(* A model of the fort.14 reader (oceanmesh_tools/io/fort14.py), of the    *)
(* boundary scanner built on it (oceanmesh_tools/io/fort14_boundaries.py)  *)
(* and of the boundary topology walk (oceanmesh_tools/mesh/boundary.py).   *)
(*                                                                         *)
(* A file is a sequence of lines, a line the sequence of its whitespace-   *)
(* separated tokens, and a token a record [k, v]:                          *)
(*   k = "int"   a token int() accepts, of value v                         *)
(*   k = "num"   a token float() accepts and int() rejects, written "v.0"  *)
(*   k = "word"  a token neither accepts                                   *)
(* The blank line is << >>.  Every read of the code is a readline, so a    *)
(* stream position (tell/seek) is the index of the next line to read.      *)
(***************************************************************************)
EXTENDS Integers, Sequences, FiniteSets, TLC

VARIABLES
    file,             \* the lines of the file being parsed
    pos,              \* stream position: index of the next line
    pc,               \* stage of parse_fort14 / the calls that follow it
    title,            \* Fort14.title (the tokens of the first line)
    n_nodes,          \* Fort14.n_nodes
    n_elements,       \* Fort14.n_elements
    nodes,            \* Fort14.nodes
    elements,         \* Fort14.elements
    n_open,           \* local n_open of parse_fort14
    open_total_nodes, \* local open_total_nodes (Optional[int])
    open_boundaries,  \* Fort14.open_boundaries
    n_land,           \* local n_land of parse_fort14
    land_total_nodes, \* local land_total_nodes (Optional[int])
    land_boundaries,  \* Fort14.land_boundaries
    handle,           \* "closed" | "open": the handle of `with p.open(...)`
    error,            \* "" or the message of the ValueError raised
    bnd,              \* result of parse_fort14_boundaries, or NoBnd
    later,            \* files still to be parsed by the caller, in order
    earlier,          \* the calls already finished: [file, result], in order
    todo,             \* calls of the pure functions still to be made, in order
    done              \* the calls already made: [fn, arg] and what they returned

pvars == <<file, pos, pc, title, n_nodes, n_elements, nodes, elements, n_open,
           open_total_nodes, open_boundaries, n_land, land_total_nodes,
           land_boundaries, handle, error, bnd, later, earlier>>

wvars == <<todo, done>>

vars == <<pvars, wvars>>

-----------------------------------------------------------------------------
(* Tokens and lines *)

I(n) == [k |-> "int", v |-> n]
F(n) == [k |-> "num", v |-> n]
W    == [k |-> "word", v |-> 0]

Max(a, b) == IF a >= b THEN a ELSE b

\* Optional[int]
None    == [some |-> FALSE, v |-> 0]
Some(n) == [some |-> TRUE, v |-> n]

\* _is_int_like(tok): int(tok) does not raise
IsIntLike(tok) == tok.k = "int"

\* float(tok) does not raise
IsFloatLike(tok) == tok.k \in {"int", "num"}

\* _parse_ints(line): the values of the int-like tokens, in order
ParseInts(line) ==
    LET sel == SelectSeq(line, IsIntLike)
    IN  [i \in 1..Len(sel) |-> sel[i].v]

\* f.readline(): the next line, "" (no tokens) at end of file
ReadLine(f, p) ==
    IF p <= Len(f) THEN [line |-> f[p], pos |-> p + 1]
    ELSE [line |-> << >>, pos |-> p]

\* _read_nonempty_line(f): skips blank lines; eof stands for None
RECURSIVE ReadNonemptyLine(_, _)
ReadNonemptyLine(f, p) ==
    IF p > Len(f) THEN [eof |-> TRUE, line |-> << >>, pos |-> p]
    ELSE IF f[p] = << >> THEN ReadNonemptyLine(f, p + 1)
    ELSE [eof |-> FALSE, line |-> f[p], pos |-> p + 1]

\* _read_nonempty_ints(f): skips blank lines and lines without an integer;
\* before is the position returned (tell before the line that was read)
RECURSIVE ReadNonemptyInts(_, _)
ReadNonemptyInts(f, p) ==
    IF p > Len(f) THEN [eof |-> TRUE, ints |-> << >>, before |-> p, pos |-> p]
    ELSE IF ParseInts(f[p]) = << >> THEN ReadNonemptyInts(f, p + 1)
    ELSE [eof |-> FALSE, ints |-> ParseInts(f[p]), before |-> p, pos |-> p + 1]

\* _peek_exact_int_lines(f, n): the ints of the next n non-empty lines iff
\* each holds exactly one integer; ok = FALSE stands for None.  The stream
\* position is restored on every path, so none is returned.
RECURSIVE PeekExactIntLines(_, _, _)
PeekExactIntLines(f, p, n) ==
    IF n <= 0 THEN [ok |-> TRUE, vals |-> << >>]
    ELSE LET r == ReadNonemptyLine(f, p)
         IN  IF r.eof \/ Len(ParseInts(r.line)) # 1
             THEN [ok |-> FALSE, vals |-> << >>]
             ELSE LET rest == PeekExactIntLines(f, r.pos, n - 1)
                  IN  IF rest.ok
                      THEN [ok |-> TRUE, vals |-> <<ParseInts(r.line)[1]>> \o rest.vals]
                      ELSE rest

\* _peek_exact_int_lines(f, n): how far its reads advance the stream before
\* f.seek(pos) restores it; the line that ends the peek has been read
RECURSIVE PeekExtent(_, _, _)
PeekExtent(f, p, n) ==
    IF n <= 0 THEN p
    ELSE LET r == ReadNonemptyLine(f, p)
         IN  IF r.eof \/ Len(ParseInts(r.line)) # 1
             THEN r.pos
             ELSE PeekExtent(f, r.pos, n - 1)

\* _read_exact_int_lines(f, n): consumes up to n non-empty lines of exactly
\* one integer; stops at end of file, or after consuming a line that deviates
RECURSIVE ReadExactIntLines(_, _, _)
ReadExactIntLines(f, p, n) ==
    IF n <= 0 THEN [vals |-> << >>, pos |-> p]
    ELSE LET r == ReadNonemptyLine(f, p)
         IN  IF r.eof \/ Len(ParseInts(r.line)) # 1
             THEN [vals |-> << >>, pos |-> r.pos]
             ELSE LET rest == ReadExactIntLines(f, r.pos, n - 1)
                  IN  [vals |-> <<ParseInts(r.line)[1]>> \o rest.vals, pos |-> rest.pos]

-----------------------------------------------------------------------------
(* _parse_one_boundary *)

\* the header decides both candidates: one integer >= 1
SingleCount(ints) == Len(ints) = 1 /\ ints[1] >= 1

\* S of candidate B and of the commit of B
SegmentCount(ints) == IF SingleCount(ints) THEN ints[1] ELSE 1

\* Candidate A (nodes-in-boundary): a_nodes, ok = FALSE for None
CandidateA(f, p, ints) ==
    IF SingleCount(ints)
    THEN PeekExactIntLines(f, p, ints[1])
    ELSE [ok |-> FALSE, vals |-> << >>]

\* Candidate B (segments), the simulated read: for each of s segments a
\* line; a single integer N >= 1 is a count followed by N one-id lines
\* (peeked, else salvaged), several integers are the ids themselves
RECURSIVE CandidateB(_, _, _)
CandidateB(f, p, s) ==
    IF s <= 0 THEN [nodes |-> << >>, pos |-> p]
    ELSE LET r == ReadNonemptyLine(f, p)
         IN  IF r.eof THEN [nodes |-> << >>, pos |-> r.pos]
             ELSE LET seg_ints == ParseInts(r.line)
                      N        == seg_ints[1]
                      vals     == PeekExactIntLines(f, r.pos, N)
                      adv      == ReadExactIntLines(f, r.pos, N)
                      here     ==
                          IF SingleCount(seg_ints)
                          THEN IF vals.ok /\ Len(vals.vals) = N
                               THEN [nodes |-> vals.vals, pos |-> adv.pos]
                               ELSE [nodes |-> adv.vals, pos |-> adv.pos]
                          ELSE [nodes |-> seg_ints, pos |-> r.pos]
                      rest     == CandidateB(f, here.pos, s - 1)
                  IN  [nodes |-> here.nodes \o rest.nodes, pos |-> rest.pos]

\* Commit of B: the re-read that consumes the lines
RECURSIVE CommitB(_, _, _)
CommitB(f, p, s) ==
    IF s <= 0 THEN [nodes |-> << >>, pos |-> p]
    ELSE LET r == ReadNonemptyLine(f, p)
         IN  IF r.eof THEN [nodes |-> << >>, pos |-> r.pos]
             ELSE LET seg_ints == ParseInts(r.line)
                      adv      == ReadExactIntLines(f, r.pos, seg_ints[1])
                      here     ==
                          IF SingleCount(seg_ints)
                          THEN [nodes |-> adv.vals, pos |-> adv.pos]
                          ELSE [nodes |-> seg_ints, pos |-> r.pos]
                      rest     == CommitB(f, here.pos, s - 1)
                  IN  [nodes |-> here.nodes \o rest.nodes, pos |-> rest.pos]

\* a commit of A that re-reads one line fewer than the peek read
CommitA_OneShort(f, p, ints) ==
    LET r == ReadExactIntLines(f, p, ints[1] - 1)
    IN  [nodes |-> r.vals, pos |-> r.pos]

\* Commit of A: _read_exact_int_lines(f, a_H or 0)
CommitA(f, p, ints) ==
    LET r == ReadExactIntLines(f, p, ints[1])
    IN  [nodes |-> r.vals, pos |-> r.pos]

\* The selection: "A" or "B", with total_hint awareness, then prefer A
Selection(a, b_nodes, total_hint) ==
    IF total_hint.some /\ a.ok /\ Len(a.vals) = total_hint.v
       /\ Len(b_nodes) # total_hint.v
    THEN "A"
    ELSE IF total_hint.some /\ Len(b_nodes) = total_hint.v
            /\ (~a.ok \/ Len(a.vals) # total_hint.v)
    THEN "B"
    ELSE IF a.ok THEN "A" ELSE "B"

\* _parse_one_boundary(f, known_node_ids, total_hint): the chain and the
\* stream position it leaves.  known_node_ids is never read by the code.
ParseOneBoundary(f, p, total_hint) ==
    LET h == ReadNonemptyInts(f, p)
    IN  IF h.eof THEN [nodes |-> << >>, pos |-> h.pos]
        ELSE LET a == CandidateA(f, h.pos, h.ints)
                 b == CandidateB(f, h.pos, SegmentCount(h.ints))
             IN  IF Selection(a, b.nodes, total_hint) = "A"
                 THEN CommitA(f, h.pos, h.ints)
                 ELSE CommitB(f, h.pos, SegmentCount(h.ints))

-----------------------------------------------------------------------------
(* parse_fort14: one action per stage, one per iteration of its loops *)

\* the state of a call that has just opened the file f
Start(f) ==
    /\ file = f
    /\ pos = 1
    /\ pc = "Title"
    /\ title = << >>
    /\ n_nodes = 0
    /\ n_elements = 0
    /\ nodes = << >>
    /\ elements = << >>
    /\ n_open = 0
    /\ open_total_nodes = None
    /\ open_boundaries = << >>
    /\ n_land = 0
    /\ land_total_nodes = None
    /\ land_boundaries = << >>
    /\ handle = "open"
    /\ error = ""

\* a node line that parses: >= 4 fields, int(parts[0]), float(parts[1..3])
NodeLineShort(parts) == Len(parts) < 4
NodeLineConverts(parts) ==
    /\ IsIntLike(parts[1])
    /\ \A i \in 2..4 : IsFloatLike(parts[i])

\* an element line that parses: >= 5 fields, int() of parts[0], parts[2..4]
\* and of parts[5] when there is one; parts[1] is not read
ElementLineShort(parts) == Len(parts) < 5

\* an element stage that takes n4 without converting it
ElementLineConverts_NoN4(parts) ==
    /\ IsIntLike(parts[1])
    /\ \A i \in 3..5 : IsIntLike(parts[i])

ElementLineConverts(parts) ==
    /\ IsIntLike(parts[1])
    /\ \A i \in 3..5 : IsIntLike(parts[i])
    /\ Len(parts) > 5 => IsIntLike(parts[6])

\* the stage that follows, given the loops that range() leaves empty
AfterNodes(ne) == IF ne > 0 THEN "Elements" ELSE "OpenHeader"
AfterCounts(ne, nn) == IF nn > 0 THEN "Nodes" ELSE AfterNodes(ne)

\* a boundary-group header (n_open / n_land line) and the peek behind it:
\*   stop   end of file, or int() of the first token raises
\*   n      the count
\*   total  the optional total-nodes hint
\*   pos    where the stream is left (always rewound before the peeked line)
\* a header stage that reads a first token int() rejects as the count 0 and
\* goes on, instead of returning
GroupHeader_NoStop(f, p) ==
    LET r == ReadNonemptyLine(f, p)
    IN  IF r.eof
        THEN [stop |-> TRUE, n |-> 0, total |-> None, pos |-> r.pos]
        ELSE LET t == ReadNonemptyInts(f, r.pos)
             IN  [stop  |-> FALSE,
                  n     |-> IF IsIntLike(r.line[1]) THEN r.line[1].v ELSE 0,
                  total |-> IF ~t.eof /\ Len(t.ints) = 1 THEN Some(t.ints[1]) ELSE None,
                  pos   |-> IF ~t.eof THEN t.before ELSE r.pos]

GroupHeader(f, p) ==
    LET r == ReadNonemptyLine(f, p)
    IN  IF r.eof \/ ~IsIntLike(r.line[1])
        THEN [stop |-> TRUE, n |-> 0, total |-> None, pos |-> r.pos]
        ELSE LET t == ReadNonemptyInts(f, r.pos)
             IN  [stop  |-> FALSE,
                  n     |-> r.line[1].v,
                  total |-> IF ~t.eof /\ Len(t.ints) = 1 THEN Some(t.ints[1]) ELSE None,
                  pos   |-> IF ~t.eof THEN t.before ELSE r.pos]

\* the n == 1 branch: one boundary, parsed again without the hint when its
\* length differs from the hint (from the same position: the peeked line)
SingleBoundary(f, p, total) ==
    LET b == ParseOneBoundary(f, p, total)
    IN  IF total.some /\ Len(b.nodes) # total.v
        THEN ParseOneBoundary(f, p, None)
        ELSE b

\* a loop that stops one boundary short
GroupSize_OneShort(n) == Max(0, n - 1)

\* number of iterations of `for _ in range(max(0, n))`
GroupSize(n) == Max(0, n)

Raise(msg) ==
    /\ pc' = "Raised"
    /\ error' = msg
    /\ handle' = "closed"

\* a return that leaves the `with` block without closing the file
Return_HandleLeft ==
    /\ pc' = "Returned"
    /\ handle' = handle
    /\ error' = error

\* `return Fort14(...)` inside `with p.open(...)`: the handle is closed
Return ==
    /\ pc' = "Returned"
    /\ handle' = "closed"
    /\ error' = error

ReadTitle ==
    /\ UNCHANGED wvars
    /\ pc = "Title"
    /\ LET r == ReadLine(file, pos)
       IN  /\ title' = r.line
           /\ pos' = r.pos
    /\ pc' = "Counts"
    /\ UNCHANGED <<file, n_nodes, n_elements, nodes, elements, n_open,
                   open_total_nodes, open_boundaries, n_land, land_total_nodes,
                   land_boundaries, handle, error, bnd, later, earlier>>

ReadCounts ==
    /\ UNCHANGED wvars
    /\ pc = "Counts"
    /\ LET r      == ReadLine(file, pos)
           counts == ParseInts(r.line)
       IN  /\ pos' = r.pos
           /\ IF Len(counts) < 2
              THEN /\ Raise("Invalid fort.14: missing counts line")
                   /\ UNCHANGED <<n_nodes, n_elements>>
              ELSE /\ n_elements' = counts[1]
                   /\ n_nodes' = counts[2]
                   /\ pc' = AfterCounts(counts[1], counts[2])
                   /\ UNCHANGED <<handle, error>>
    /\ UNCHANGED <<file, title, nodes, elements, n_open, open_total_nodes,
                   open_boundaries, n_land, land_total_nodes, land_boundaries,
                   bnd, later, earlier>>

ReadNode ==
    /\ UNCHANGED wvars
    /\ pc = "Nodes"
    /\ LET r     == ReadLine(file, pos)
           parts == r.line
       IN  /\ pos' = r.pos
           /\ IF NodeLineShort(parts)
              THEN /\ Raise("Invalid fort.14: node line too short")
                   /\ UNCHANGED nodes
              ELSE IF ~NodeLineConverts(parts)
              THEN /\ Raise("conversion")
                   /\ UNCHANGED nodes
              ELSE /\ nodes' = Append(nodes, <<parts[1].v, parts[2].v, parts[3].v, parts[4].v>>)
                   /\ pc' = IF Len(nodes) + 1 < n_nodes THEN "Nodes" ELSE AfterNodes(n_elements)
                   /\ UNCHANGED <<handle, error>>
    /\ UNCHANGED <<file, title, n_nodes, n_elements, elements, n_open,
                   open_total_nodes, open_boundaries, n_land, land_total_nodes,
                   land_boundaries, bnd, later, earlier>>

ReadElement ==
    /\ UNCHANGED wvars
    /\ pc = "Elements"
    /\ LET r     == ReadLine(file, pos)
           parts == r.line
       IN  /\ pos' = r.pos
           /\ IF ElementLineShort(parts)
              THEN /\ Raise("Invalid fort.14: element line too short")
                   /\ UNCHANGED elements
              ELSE IF ~ElementLineConverts(parts)
              THEN /\ Raise("conversion")
                   /\ UNCHANGED elements
              ELSE /\ elements' = Append(elements,
                                    <<parts[1].v, parts[3].v, parts[4].v, parts[5].v,
                                      IF Len(parts) > 5 THEN parts[6].v ELSE 0>>)
                   /\ pc' = IF Len(elements) + 1 < n_elements THEN "Elements" ELSE "OpenHeader"
                   /\ UNCHANGED <<handle, error>>
    /\ UNCHANGED <<file, title, n_nodes, n_elements, nodes, n_open,
                   open_total_nodes, open_boundaries, n_land, land_total_nodes,
                   land_boundaries, bnd, later, earlier>>

ReadOpenHeader ==
    /\ UNCHANGED wvars
    /\ pc = "OpenHeader"
    /\ LET h == GroupHeader(file, pos)
       IN  /\ pos' = h.pos
           /\ IF h.stop
              THEN /\ Return
                   /\ UNCHANGED <<n_open, open_total_nodes>>
              ELSE /\ n_open' = h.n
                   /\ open_total_nodes' = h.total
                   /\ pc' = IF h.n = 1 \/ GroupSize(h.n) > 0 THEN "OpenBoundaries" ELSE "LandHeader"
                   /\ UNCHANGED <<handle, error>>
    /\ UNCHANGED <<file, title, n_nodes, n_elements, nodes, elements,
                   open_boundaries, n_land, land_total_nodes, land_boundaries,
                   bnd, later, earlier>>

ParseOpenBoundary ==
    /\ UNCHANGED wvars
    /\ pc = "OpenBoundaries"
    /\ LET b == IF n_open = 1
                THEN SingleBoundary(file, pos, open_total_nodes)
                ELSE ParseOneBoundary(file, pos, open_total_nodes)
       IN  /\ pos' = b.pos
           /\ open_boundaries' = Append(open_boundaries, b.nodes)
    /\ pc' = IF Len(open_boundaries) + 1 < GroupSize(n_open) THEN "OpenBoundaries" ELSE "LandHeader"
    /\ UNCHANGED <<file, title, n_nodes, n_elements, nodes, elements, n_open,
                   open_total_nodes, n_land, land_total_nodes, land_boundaries,
                   handle, error, bnd, later, earlier>>

ReadLandHeader ==
    /\ UNCHANGED wvars
    /\ pc = "LandHeader"
    /\ LET h == GroupHeader(file, pos)
       IN  /\ pos' = h.pos
           /\ IF h.stop
              THEN /\ Return
                   /\ UNCHANGED <<n_land, land_total_nodes>>
              ELSE /\ n_land' = h.n
                   /\ land_total_nodes' = h.total
                   /\ IF h.n = 1 \/ GroupSize(h.n) > 0
                      THEN pc' = "LandBoundaries" /\ UNCHANGED <<handle, error>>
                      ELSE Return
    /\ UNCHANGED <<file, title, n_nodes, n_elements, nodes, elements, n_open,
                   open_total_nodes, open_boundaries, land_boundaries,
                   bnd, later, earlier>>

ParseLandBoundary ==
    /\ UNCHANGED wvars
    /\ pc = "LandBoundaries"
    /\ LET b == IF n_land = 1
                THEN SingleBoundary(file, pos, land_total_nodes)
                ELSE ParseOneBoundary(file, pos, land_total_nodes)
       IN  /\ pos' = b.pos
           /\ land_boundaries' = Append(land_boundaries, b.nodes)
    /\ IF Len(land_boundaries) + 1 < GroupSize(n_land)
       THEN pc' = "LandBoundaries" /\ UNCHANGED <<handle, error>>
       ELSE Return
    /\ UNCHANGED <<file, title, n_nodes, n_elements, nodes, elements, n_open,
                   open_total_nodes, open_boundaries, n_land, land_total_nodes,
                   bnd, later, earlier>>

-----------------------------------------------------------------------------
(* parse_fort14_boundaries: the integer-only scan, its fallback, the filter *)

NoBnd == [via |-> "none", open_segments |-> << >>, land_segments |-> << >>,
          meta |-> << >>]

\* re.findall(r"[-+]?\d+", tok): "v.0" holds the two integers v and 0
TokenInts(tok) ==
    IF tok.k = "int" THEN <<tok.v>>
    ELSE IF tok.k = "num" THEN <<tok.v, 0>>
    ELSE << >>

\* _ints(line)
RECURSIVE Ints(_)
Ints(line) ==
    IF line = << >> THEN << >> ELSE TokenInts(Head(line)) \o Ints(Tail(line))

\* _read_n_ints(f, need), with the ints read so far; eof stands for EOFError
RECURSIVE ReadNIntsFrom(_, _, _, _)
ReadNIntsFrom(f, p, need, vals) ==
    IF Len(vals) >= need THEN [eof |-> FALSE, vals |-> SubSeq(vals, 1, need), pos |-> p]
    ELSE IF p > Len(f) THEN [eof |-> TRUE, vals |-> << >>, pos |-> p]
    ELSE ReadNIntsFrom(f, p + 1, need, vals \o Ints(f[p]))

ReadNInts(f, p, need) == ReadNIntsFrom(f, p, need, << >>)

\* n times f.readline(), the lines dropped
SkipLines(f, p, n) ==
    IF n <= 0 THEN p
    ELSE IF p + n > Len(f) + 1 THEN Max(p, Len(f) + 1) ELSE p + n

\* [(_read_n_ints(f, 1)[0] - 1) for _ in range(max(0, m_nodes))]
RECURSIVE ScanSegment(_, _, _)
ScanSegment(f, p, m_nodes) ==
    IF m_nodes <= 0 THEN [eof |-> FALSE, seg |-> << >>, pos |-> p]
    ELSE LET r == ReadNInts(f, p, 1)
         IN  IF r.eof THEN [eof |-> TRUE, seg |-> << >>, pos |-> r.pos]
             ELSE LET rest == ScanSegment(f, r.pos, m_nodes - 1)
                  IN  [eof |-> rest.eof, seg |-> <<r.vals[1] - 1>> \o rest.seg,
                       pos |-> rest.pos]

\* the loop over the open boundaries: a count line, then the ids
RECURSIVE ScanOpen(_, _, _)
ScanOpen(f, p, k) ==
    IF k <= 0 THEN [eof |-> FALSE, segs |-> << >>, pos |-> p]
    ELSE LET h == ReadNInts(f, p, 1)
         IN  IF h.eof THEN [eof |-> TRUE, segs |-> << >>, pos |-> h.pos]
             ELSE LET sg == ScanSegment(f, h.pos, h.vals[1])
                  IN  IF sg.eof THEN [eof |-> TRUE, segs |-> << >>, pos |-> sg.pos]
                      ELSE LET rest == ScanOpen(f, sg.pos, k - 1)
                           IN  [eof |-> rest.eof, segs |-> <<sg.seg>> \o rest.segs,
                                pos |-> rest.pos]

\* the loop over the land boundaries: "m ib" on one line or over two lines
\* a header read line by line: m from one line, ib from the next
LandHeaderInts_LineWise(f, p) ==
    LET m  == ReadNInts(f, p, 1)
        ib == ReadNInts(f, m.pos, 1)
    IN  IF m.eof \/ ib.eof THEN [eof |-> TRUE, vals |-> << >>, pos |-> ib.pos]
        ELSE [eof |-> FALSE, vals |-> <<m.vals[1], ib.vals[1]>>, pos |-> ib.pos]

LandHeaderInts(f, p) == ReadNInts(f, p, 2)

RECURSIVE ScanLand(_, _, _)
ScanLand(f, p, k) ==
    IF k <= 0 THEN [eof |-> FALSE, segs |-> << >>, pos |-> p]
    ELSE LET h == LandHeaderInts(f, p)
         IN  IF h.eof THEN [eof |-> TRUE, segs |-> << >>, pos |-> h.pos]
             ELSE LET sg == ScanSegment(f, h.pos, h.vals[1])
                  IN  IF sg.eof THEN [eof |-> TRUE, segs |-> << >>, pos |-> sg.pos]
                      ELSE LET rest == ScanLand(f, sg.pos, k - 1)
                           IN  [eof |-> rest.eof,
                                segs |-> <<[ib |-> Some(h.vals[2]), seg |-> sg.seg]>> \o rest.segs,
                                pos |-> rest.pos]

\* the try block: ok = FALSE when EOFError was raised anywhere in it
Scan(f, nn, ne) ==
    LET fail   == [ok |-> FALSE, open_segments |-> << >>, land_segments |-> << >>,
                   meta |-> << >>]
        counts == ReadNInts(f, ReadLine(f, 1).pos, 2)
        p0     == SkipLines(f, SkipLines(f, counts.pos, nn), ne)
        NOPE   == ReadNInts(f, p0, 1)
        NBOU   == ReadNInts(f, NOPE.pos, 1)
        op     == ScanOpen(f, NBOU.pos, NOPE.vals[1])
        NBOB   == ReadNInts(f, op.pos, 1)
        NBOBN  == ReadNInts(f, NBOB.pos, 1)
        ld     == ScanLand(f, NBOBN.pos, NBOB.vals[1])
    IN  IF counts.eof THEN fail
        ELSE IF NOPE.eof THEN fail
        ELSE IF NBOU.eof THEN fail
        ELSE IF op.eof THEN fail
        ELSE IF NBOB.eof THEN fail
        ELSE IF NBOBN.eof THEN fail
        ELSE IF ld.eof THEN fail
        ELSE [ok |-> TRUE, open_segments |-> op.segs, land_segments |-> ld.segs,
              meta |-> <<NOPE.vals[1], NBOU.vals[1], NBOB.vals[1], NBOBN.vals[1], nn, ne>>]

\* [int(n) - 1 for n in seg if int(n) - 1 >= 0]
RECURSIVE ZeroBased(_)
ZeroBased(seg) ==
    IF seg = << >> THEN << >>
    ELSE (IF Head(seg) - 1 >= 0 THEN <<Head(seg) - 1>> ELSE << >>) \o ZeroBased(Tail(seg))

RECURSIVE SumLen(_)
SumLen(segs) == IF segs = << >> THEN 0 ELSE Len(Head(segs)) + SumLen(Tail(segs))

\* an except branch that gives its land segments an ibtype
Fallback_WithIbtype(open, land, nn, ne) ==
    [open_segments |-> [i \in 1..Len(open) |-> ZeroBased(open[i])],
     land_segments |-> [i \in 1..Len(land) |-> [ib |-> Some(0), seg |-> ZeroBased(land[i])]],
     meta |-> <<Len(open), SumLen(open), Len(land), SumLen(land), nn, ne>>]

\* the except branch: segments of the Fort14 m, without ibtype
Fallback(open, land, nn, ne) ==
    [open_segments |-> [i \in 1..Len(open) |-> ZeroBased(open[i])],
     land_segments |-> [i \in 1..Len(land) |-> [ib |-> None, seg |-> ZeroBased(land[i])]],
     meta |-> <<Len(open), SumLen(open), Len(land), SumLen(land), nn, ne>>]

\* _in_range(seg)
InRange(seg, nmax) ==
    Len(seg) = 0 \/ \A i \in 1..Len(seg) : seg[i] >= 0 /\ seg[i] < nmax

RECURSIVE KeepOpen(_, _)
KeepOpen(segs, nmax) ==
    IF segs = << >> THEN << >>
    ELSE (IF InRange(Head(segs), nmax) THEN <<Head(segs)>> ELSE << >>)
         \o KeepOpen(Tail(segs), nmax)

RECURSIVE KeepLand(_, _)
KeepLand(segs, nmax) ==
    IF segs = << >> THEN << >>
    ELSE (IF InRange(Head(segs).seg, nmax) THEN <<Head(segs)>> ELSE << >>)
         \o KeepLand(Tail(segs), nmax)

\* what parse_fort14_boundaries returns, given the Fort14 m of its first line
Boundaries(f, mnodes, nn, ne, open, land) ==
    LET sc   == Scan(f, nn, ne)
        got  == IF sc.ok THEN sc ELSE Fallback(open, land, nn, ne)
        nmax == Len(mnodes)
    IN  [via |-> IF sc.ok THEN "scan" ELSE "fallback",
         open_segments |-> KeepOpen(got.open_segments, nmax),
         land_segments |-> KeepLand(got.land_segments, nmax),
         meta |-> got.meta]

\* parse_fort14_boundaries after its call of parse_fort14 has returned
ScanBoundaries ==
    /\ UNCHANGED wvars
    /\ pc = "Returned"
    /\ bnd' = Boundaries(file, nodes, n_nodes, n_elements, open_boundaries, land_boundaries)
    /\ pc' = "BReturned"
    /\ UNCHANGED <<file, pos, title, n_nodes, n_elements, nodes, elements, n_open,
                   open_total_nodes, open_boundaries, n_land, land_total_nodes,
                   land_boundaries, handle, error, later, earlier>>

\* the caller parses its next file (the tests parse one file after another)
NextCall ==
    /\ UNCHANGED wvars
    /\ pc = "BReturned"
    /\ later # << >>
    /\ earlier' = Append(earlier, [file |-> file, result |-> bnd])
    /\ later' = Tail(later)
    /\ bnd' = NoBnd
    /\ file' = Head(later)
    /\ pos' = 1
    /\ pc' = "Title"
    /\ title' = << >>
    /\ n_nodes' = 0
    /\ n_elements' = 0
    /\ nodes' = << >>
    /\ elements' = << >>
    /\ n_open' = 0
    /\ open_total_nodes' = None
    /\ open_boundaries' = << >>
    /\ n_land' = 0
    /\ land_total_nodes' = None
    /\ land_boundaries' = << >>
    /\ handle' = "open"
    /\ error' = ""

-----------------------------------------------------------------------------
(* The files parsed *)

MaxBody == 2
MaxTail == 4
MaxH == 2

SeqsUpTo(S, n) == UNION {[1..k -> S] : k \in 0..n}

RECURSIVE Flatten(_)
Flatten(ss) == IF ss = << >> THEN << >> ELSE Head(ss) \o Flatten(Tail(ss))

TitleLine == <<W, W>>

\* counts lines: missing, short, zero, positive, negative, with a stray word
CountsLines ==
    {<< >>, <<I(1)>>, <<I(1), F(1)>>, <<I(0), I(0)>>, <<I(0), I(1)>>,
     <<I(1), I(0)>>, <<I(1), I(1)>>, <<I(1), W, I(1)>>, <<I(-1), I(-1)>>,
     <<I(0), I(-1)>>}

\* lines of the node and element tables, well-formed and not
BodyLines ==
    {<<I(1), F(0), F(1), F(-5)>>,            \* id x y depth
     <<I(1), F(0), F(1)>>,                   \* no depth
     <<F(1), F(0), F(1), F(-5)>>,            \* id "1.0"
     <<I(1), F(0), W, F(-5)>>,               \* y is a word
     <<I(1), I(3), I(1), I(2), I(3)>>,       \* eid 3 n1 n2 n3
     <<I(1), I(3), I(1), I(2), I(3), I(0)>>, \* with n4
     <<I(1), I(3), I(1), F(2), I(3)>>,       \* n2 "2.0"
     <<I(1), I(3), I(1), I(2), I(3), W>>,    \* n4 is a word
     <<I(1), W, I(1), I(2), I(3)>>,          \* parts[1] is a word
     << >>}

\* lines after the element table
TailLines == {<<I(0)>>, <<I(1)>>, <<I(2)>>, <<I(1), I(2)>>, << >>, <<W>>}

Ids == {1, 2}
Chains == UNION {[1..k -> Ids] : k \in 1..MaxH}

Prefix0 == <<TitleLine, <<I(0), I(0)>>>>
Prefix3 ==
    <<TitleLine, <<I(1), I(3)>>,
      <<I(1), F(0), F(0), F(-5)>>, <<I(2), F(1), F(0), F(-5)>>,
      <<I(3), F(0), F(1), F(-5)>>,
      <<I(1), I(3), I(1), I(2), I(3)>>>>

\* one id per line
IdLines(chain) == [i \in 1..Len(chain) |-> <<I(chain[i])>>]

\* a count line followed by that many lines of one id each
CountedLines(chain) == <<<<I(Len(chain))>>>> \o IdLines(chain)

\* an open group in nodes-in-boundary style: the number of boundaries, then
\* each boundary as a count line and its ids
StyleAGroup(chains) ==
    <<<<I(Len(chains))>>>> \o Flatten([i \in 1..Len(chains) |-> CountedLines(chains[i])])

\* one open boundary in segment style: the segment count, then each segment
\* as a count line and its ids
SegmentGroup(segs) ==
    <<<<I(1)>>, <<I(Len(segs))>>>> \o Flatten([i \in 1..Len(segs) |-> CountedLines(segs[i])])

\* what follows the open group: nothing, an empty land group ("0", "0"), or
\* a land group of one boundary of one node
LandSections == {<< >>, <<<<I(0)>>, <<I(0)>>>>, <<<<I(1)>>, <<I(1)>>, <<I(2)>>>>}

\* a land boundary of the standard layout: "m ib" on one line (layout
\* "same") or over two lines (layout "split"), then the ids; decl is m
LandEntry(b) ==
    (IF b.layout = "same" THEN <<<<I(b.decl), I(b.ib)>>>>
     ELSE <<<<I(b.decl)>>, <<I(b.ib)>>>>) \o IdLines(b.ids)

\* the standard layout: NOPE, NBOU, the open boundaries, NBOB, NBOBN, the
\* land boundaries
StandardTail(opens, lands) ==
    <<<<I(Len(opens))>>, <<I(SumLen(opens))>>>>
    \o Flatten([i \in 1..Len(opens) |-> CountedLines(opens[i])])
    \o <<<<I(Len(lands))>>, <<I(SumLen([i \in 1..Len(lands) |-> lands[i].ids]))>>>>
    \o Flatten([i \in 1..Len(lands) |-> LandEntry(lands[i])])

FilesPrefix ==
    {<< >>, <<TitleLine>>}
    \cup {<<TitleLine, c>> \o b : c \in CountsLines, b \in SeqsUpTo(BodyLines, MaxBody)}

FilesTail == {Prefix0 \o t : t \in SeqsUpTo(TailLines, MaxTail)}

\* two or three open boundaries / one or two segments
StyleAChains == [1..2 -> Chains] \cup [1..3 -> Chains]
SegmentChains == [1..1 -> Chains] \cup [1..2 -> Chains]

FilesStyleA ==
    {Prefix0 \o StyleAGroup(cs) \o ls : cs \in StyleAChains, ls \in LandSections}

FilesSegments ==
    {Prefix0 \o SegmentGroup(sg) \o ls : sg \in SegmentChains, ls \in LandSections}

\* land boundaries: ids 1..3 are nodes of Prefix3, 4 is not; decl is the
\* node count its header declares, the number of its ids or one more
LandIds == {1, 4}
LandChains == UNION {[1..k -> LandIds] : k \in 1..MaxH}
LandBoundaries ==
    {[layout |-> l, decl |-> Len(c) + d, ib |-> 20, ids |-> c] :
        l \in {"same", "split"}, c \in LandChains, d \in {0, 1}}

Consistent(b) == b.decl = Len(b.ids)
ConsistentBoundaries == {b \in LandBoundaries : Consistent(b)}

Relaid(b, l) == [b EXCEPT !.layout = l]

\* pairs of files in the standard layout that differ in the layout of the
\* header of one land boundary, taken from B: "same" in the first file,
\* "split" in the second
VariantPairsOf(B) ==
    {<<Prefix3 \o StandardTail(os, <<Relaid(b, "same")>> \o rest),
       Prefix3 \o StandardTail(os, <<Relaid(b, "split")>> \o rest)>> :
        os \in {<< >>, <<<<1, 2>>>>}, b \in B,
        rest \in {<< >>} \cup {<<r>> : r \in ConsistentBoundaries}}
    \cup
    {<<Prefix3 \o StandardTail(os, <<r, Relaid(b, "same")>>),
       Prefix3 \o StandardTail(os, <<r, Relaid(b, "split")>>)>> :
        os \in {<< >>, <<<<1, 2>>>>}, b \in B, r \in ConsistentBoundaries}

VariantPairs == VariantPairsOf(LandBoundaries)
ConsistentPairs == VariantPairsOf(ConsistentBoundaries)

\* files in the standard layout on the mesh of Prefix3: up to two open
\* boundaries of ids 1 and 2, and no land boundary or one whose header is
\* "m ib" on one line
StandardOpens == {<< >>} \cup [1..1 -> Chains] \cup [1..2 -> Chains]
StandardLands ==
    {<< >>} \cup {<<b>> : b \in {c \in ConsistentBoundaries : c.layout = "same"}}
FilesStandard ==
    {Prefix3 \o StandardTail(os, ls) : os \in StandardOpens, ls \in StandardLands}

Init ==
    /\ bnd = NoBnd
    /\ earlier = << >>
    /\ \/ /\ later = << >>
          /\ file \in FilesPrefix \cup FilesTail \cup FilesStyleA \cup FilesSegments
                       \cup FilesStandard
       \/ /\ later \in {<<pr[2]>> : pr \in VariantPairs}
          /\ file \in {pr[1] : pr \in {q \in VariantPairs : q[2] = later[1]}}
    /\ Start(file)
    /\ todo = << >>
    /\ done = << >>

Next ==
    \/ ReadTitle
    \/ ReadCounts
    \/ ReadNode
    \/ ReadElement
    \/ ReadOpenHeader
    \/ ParseOpenBoundary
    \/ ReadLandHeader
    \/ ParseLandBoundary
    \/ ScanBoundaries
    \/ NextCall

Spec == Init /\ [][Next]_vars

-----------------------------------------------------------------------------
(* mesh/boundary.py: boundary edges and loop walking.  A dict is a sequence
   of entries in insertion order, which is the order Python iterates it in. *)

\* key(i, j), and the `(i, j) if i < j else (j, i)` of build_edge_counts
Key(i, j) == IF i < j THEN <<i, j>> ELSE <<j, i>>

Range(s) == {s[k] : k \in 1..Len(s)}

\* counts[e] += 1 on a defaultdict(int)
Incr(counts, e) ==
    IF \E k \in 1..Len(counts) : counts[k].e = e
    THEN [k \in 1..Len(counts) |->
            IF counts[k].e = e THEN [e |-> e, c |-> counts[k].c + 1] ELSE counts[k]]
    ELSE Append(counts, [e |-> e, c |-> 1])

\* `for _, a, b, c, _ in elements`: an element is (eid, n1, n2, n3, n4)
Abc(el) == <<el[2], el[3], el[4]>>

\* sides that take in the fourth node id
Sides_WithN4(el) ==
    <<Key(el[2], el[3]), Key(el[3], el[4]), Key(el[4], el[2])>>
    \o (IF el[5] # 0 THEN <<Key(el[4], el[5])>> ELSE << >>)

\* the three sides of an element, each as `(i, j) if i < j else (j, i)`
Sides(el) == <<Key(el[2], el[3]), Key(el[3], el[4]), Key(el[4], el[2])>>

RECURSIVE CountSides(_, _)
CountSides(counts, sides) ==
    IF sides = << >> THEN counts
    ELSE CountSides(Incr(counts, Head(sides)), Tail(sides))

RECURSIVE EdgeCountsFrom(_, _)
EdgeCountsFrom(counts, els) ==
    IF els = << >> THEN counts
    ELSE EdgeCountsFrom(CountSides(counts, Sides(Head(els))), Tail(els))

build_edge_counts(els) == EdgeCountsFrom(<< >>, els)

RECURSIVE boundary_edges_from_counts(_)
boundary_edges_from_counts(counts) ==
    IF counts = << >> THEN << >>
    ELSE (IF Head(counts).c = 1 THEN <<Head(counts).e>> ELSE << >>)
         \o boundary_edges_from_counts(Tail(counts))

\* nbrs[i].append(j) on a defaultdict(list)
AppendNbr(nbrs, i, j) ==
    IF \E k \in 1..Len(nbrs) : nbrs[k].n = i
    THEN [k \in 1..Len(nbrs) |->
            IF nbrs[k].n = i THEN [n |-> i, adj |-> Append(nbrs[k].adj, j)] ELSE nbrs[k]]
    ELSE Append(nbrs, [n |-> i, adj |-> <<j>>])

RECURSIVE AdjacencyFrom(_, _)
AdjacencyFrom(nbrs, edges) ==
    IF edges = << >> THEN nbrs
    ELSE LET e == Head(edges)
         IN  AdjacencyFrom(AppendNbr(AppendNbr(nbrs, e[1], e[2]), e[2], e[1]), Tail(edges))

\* the adjacency built by the first loop of walk_closed_loops
Adjacency(edges) == AdjacencyFrom(<< >>, edges)

\* nbrs[n], and nbrs.get(n, [])
NbrsOf(nbrs, n) ==
    IF \E k \in 1..Len(nbrs) : nbrs[k].n = n
    THEN nbrs[CHOOSE k \in 1..Len(nbrs) : nbrs[k].n = n].adj
    ELSE << >>

\* sorted(s) for a list of ints: the i-th entry is the value x with fewer
\* than i entries of s below x and at least i entries of s up to x
Sorted(s) ==
    [i \in 1..Len(s) |->
        CHOOSE x \in Range(s) :
            /\ Cardinality({j \in 1..Len(s) : s[j] < x}) < i
            /\ i <= Cardinality({j \in 1..Len(s) : s[j] <= x})]

\* candidates that leave out the previous node only
Candidates_UsedIgnored(nbrs, used, prev, cur) ==
    LET NotPrev(v) == v # prev
    IN  SelectSeq(Sorted(NbrsOf(nbrs, cur)), NotPrev)

\* [v for v in sorted(nbrs[cur]) if v != prev and key(cur, v) not in used]
Candidates(nbrs, used, prev, cur) ==
    LET Free(v) == v # prev /\ Key(cur, v) \notin used
    IN  SelectSeq(Sorted(NbrsOf(nbrs, cur)), Free)

\* one pass of `while True` entered with cur, nxt, and the passes after it
RECURSIVE Walk(_, _, _, _, _, _)
Walk(nbrs, start, used, cur, nxt, loop) ==
    LET used1 == used \cup {Key(cur, nxt)}
        loop1 == Append(loop, nxt)
        cand  == Candidates(nbrs, used1, cur, nxt)
    IN  IF cand = << >>
        THEN IF nxt = loop1[1]
             THEN [used |-> used1, loop |-> loop1]
             ELSE IF Key(nxt, loop1[1]) \notin used1 /\ loop1[1] \in Range(NbrsOf(nbrs, nxt))
                  THEN Walk(nbrs, start, used1, nxt, loop1[1], loop1)
                  ELSE [used |-> used1, loop |-> loop1]
        ELSE IF nxt = start /\ cand[1] = loop1[2]
             THEN [used |-> used1, loop |-> loop1]
             ELSE Walk(nbrs, start, used1, nxt, cand[1], loop1)

\* `if loop[0] != loop[-1] and loop[0] in nbrs.get(loop[-1], [])`
CloseLoop(nbrs, loop) ==
    IF loop[1] # loop[Len(loop)] /\ loop[1] \in Range(NbrsOf(nbrs, loop[Len(loop)]))
    THEN Append(loop, loop[1])
    ELSE loop

\* `if len(loop) >= 3: loops.append(loop)`
KeepLoop(loops, loop) == IF Len(loop) >= 3 THEN Append(loops, loop) ELSE loops

\* `for start in list(nbrs.keys())`, from the k-th key on
RECURSIVE WalkStarts(_, _, _, _)
WalkStarts(nbrs, k, used, loops) ==
    IF k > Len(nbrs) THEN loops
    ELSE LET start == nbrs[k].n
             adj   == nbrs[k].adj
         IN  IF \A v \in Range(adj) : Key(start, v) \in used
             THEN WalkStarts(nbrs, k + 1, used, loops)
             ELSE LET w == Walk(nbrs, start, used, start, Sorted(adj)[1], <<start>>)
                  IN  WalkStarts(nbrs, k + 1, w.used, KeepLoop(loops, CloseLoop(nbrs, w.loop)))

walk_closed_loops(boundary_edges) == WalkStarts(Adjacency(boundary_edges), 1, {}, << >>)

\* the ids of `seen`: node ids of the elements in first-seen order
RECURSIVE SeenFrom(_, _)
SeenFrom(seen, ns) ==
    IF ns = << >> THEN seen
    ELSE SeenFrom(IF Head(ns) \in Range(seen) THEN seen ELSE Append(seen, Head(ns)), Tail(ns))

RECURSIVE NodeRefs(_)
NodeRefs(els) == IF els = << >> THEN << >> ELSE Abc(Head(els)) \o NodeRefs(Tail(els))

Seen(els) == SeenFrom(<< >>, NodeRefs(els))

\* a fallback that wants more than three ids
FallbackRing_MoreThan3(seen) == IF Len(seen) > 3 THEN <<Append(seen, seen[1])>> ELSE << >>

\* `if len(seen) >= 3: return [seen + [seen[0]]]` / `return []`
FallbackRing(seen) == IF Len(seen) >= 3 THEN <<Append(seen, seen[1])>> ELSE << >>

compute_outer_loops(els) ==
    LET loops == walk_closed_loops(boundary_edges_from_counts(build_edge_counts(els)))
    IN  IF loops # << >> THEN loops ELSE FallbackRing(Seen(els))

\* the parser is not running while the loop functions are called
ParserIdle ==
    /\ file = << >>
    /\ pos = 1
    /\ pc = "Idle"
    /\ title = << >>
    /\ n_nodes = 0
    /\ n_elements = 0
    /\ nodes = << >>
    /\ elements = << >>
    /\ n_open = 0
    /\ open_total_nodes = None
    /\ open_boundaries = << >>
    /\ n_land = 0
    /\ land_total_nodes = None
    /\ land_boundaries = << >>
    /\ handle = "closed"
    /\ error = ""
    /\ bnd = NoBnd
    /\ later = << >>
    /\ earlier = << >>

\* a call of walk_closed_loops on a list of edges
WalkClosedLoops ==
    /\ todo # << >>
    /\ Head(todo).fn = "walk_closed_loops"
    /\ done' = Append(done, [fn    |-> "walk_closed_loops",
                             arg   |-> Head(todo).arg,
                             edges |-> Head(todo).arg,
                             loops |-> walk_closed_loops(Head(todo).arg)])
    /\ todo' = Tail(todo)
    /\ UNCHANGED pvars

\* a call of compute_outer_loops on a list of elements
ComputeOuterLoops ==
    /\ todo # << >>
    /\ Head(todo).fn = "compute_outer_loops"
    /\ done' = Append(done, [fn    |-> "compute_outer_loops",
                             arg   |-> Head(todo).arg,
                             edges |-> boundary_edges_from_counts(build_edge_counts(Head(todo).arg)),
                             loops |-> compute_outer_loops(Head(todo).arg)])
    /\ todo' = Tail(todo)
    /\ UNCHANGED pvars

\* bounds of the inputs
MaxEdges == 3
MaxElements == 3

WNodes == 1..4

\* the edges a dict of build_edge_counts can hold for proper triangles
Edges == {e \in WNodes \X WNodes : e[1] < e[2]}

\* lists of distinct edges
EdgeLists == {l \in SeqsUpTo(Edges, MaxEdges) : \A i, j \in 1..Len(l) : i # j => l[i] # l[j]}

\* the same edges listed in another order
Reorderings(l) == {m \in [1..Len(l) -> Range(l)] : Range(m) = Range(l) /\ m # l}

\* elements (eid, n1, n2, n3, n4): triangles of a small mesh, one of them
\* wound the other way, one with a fourth node id, and elements that name a
\* node twice (the parser takes any ints)
Triangles ==
    {<<1, 1, 2, 3, 0>>, <<2, 1, 2, 4, 0>>, <<3, 2, 3, 4, 0>>, <<4, 1, 3, 4, 0>>,
     <<5, 3, 2, 1, 0>>, <<6, 1, 2, 3, 4>>,
     <<7, 1, 1, 1, 0>>, <<8, 1, 1, 2, 0>>, <<9, 1, 2, 2, 0>>}

ElementLists == SeqsUpTo(Triangles, MaxElements)

\* any pairs of node ids, a pair of one id twice and a pair listed twice
\* included: walk_closed_loops takes every list of pairs
MNodes == 1..3
Pairs == MNodes \X MNodes
PairLists == SeqsUpTo(Pairs, MaxEdges)

\* a triangle and one more edge at one of its nodes, in every order: a node
\* with three incident boundary edges on a cycle
PendantSets ==
    {{Key(a, b), Key(b, c), Key(a, c), Key(a, d)} :
        <<a, b, c, d>> \in {q \in WNodes \X WNodes \X WNodes \X WNodes :
                               Cardinality({q[1], q[2], q[3], q[4]}) = 4}}
PendantLists ==
    UNION {{l \in [1..4 -> E] : Range(l) = E} : E \in PendantSets}

WalkCall(l) == [fn |-> "walk_closed_loops", arg |-> l]
OuterCall(els) == [fn |-> "compute_outer_loops", arg |-> els]

LoopsInit ==
    /\ ParserIdle
    /\ done = << >>
    /\ \/ todo \in {<<WalkCall(l)>> : l \in EdgeLists}
       \/ todo \in {<<WalkCall(l)>> : l \in PairLists \cup PendantLists}
       \/ todo \in UNION {{<<WalkCall(l), WalkCall(m)>> : m \in Reorderings(l)} : l \in EdgeLists}
       \/ todo \in {<<OuterCall(els)>> : els \in ElementLists}

LoopsNext ==
    \/ WalkClosedLoops
    \/ ComputeOuterLoops

LoopsSpec == LoopsInit /\ [][LoopsNext]_vars

-----------------------------------------------------------------------------
(* Properties of parse_fort14 and parse_fort14_boundaries *)

MeshReturned == pc \in {"Returned", "BReturned"}

\* C1: when the open (resp. land) group header declares n >= 0 boundaries,
\* parse_fort14 holds exactly n open (resp. land) chains once the group is
\* read, and returns exactly n of each, whatever lines follow the header:
\* no declared boundary is dropped and none is merged into its neighbour's
\* list entry.
C1_DeclaredCount ==
    /\ pc \in {"LandHeader", "LandBoundaries", "Returned", "BReturned"} /\ n_open >= 0
          => Len(open_boundaries) = n_open
    /\ MeshReturned /\ n_land >= 0 => Len(land_boundaries) = n_land

C1_Witness ==
    /\ pc = "Returned"
    /\ n_open = 2 /\ Len(open_boundaries) = 2 /\ open_boundaries[1] # open_boundaries[2]
    /\ n_land = 1 /\ Len(land_boundaries) = 1

\* C2: for an open group of n >= 2 boundaries in nodes-in-boundary style (a
\* count line H_i, then H_i lines of one id) parse_fort14 returns as its
\* open boundaries exactly the n id lists of the file, in order.
C2_NodesInBoundaryChains ==
    pc = "Returned" =>
        \A cs \in StyleAChains, ls \in LandSections :
            file = Prefix0 \o StyleAGroup(cs) \o ls => open_boundaries = cs

\* C3: for one open boundary in segment style (a segment-count line S, then
\* per segment a count line N and N lines of one id) parse_fort14 returns
\* the concatenation of the segments' ids.
C3_SegmentConcatenation ==
    pc = "Returned" =>
        \A sg \in SegmentChains, ls \in LandSections :
            file = Prefix0 \o SegmentGroup(sg) \o ls => open_boundaries = <<Flatten(sg)>>

\* C4: whenever parse_fort14 returns, len(nodes) == n_nodes and
\* len(elements) == n_elements, for every value of the counts line.
C4_TableLengths ==
    MeshReturned => Len(nodes) = n_nodes /\ Len(elements) = n_elements

\* the tables of file f as C5 wants them: a counts line of >= 2 integers
\* (elements, nodes), every node line present with >= 4 fields of which the
\* four that are read are numeric, every element line present with >= 5
\* fields of which the node ids (n1 n2 n3, and n4 when given) are integers
TablesWellFormed(f) ==
    /\ Len(f) >= 2
    /\ Len(ParseInts(f[2])) >= 2
    /\ LET ne == ParseInts(f[2])[1]
           nn == ParseInts(f[2])[2]
           e0 == 2 + Max(nn, 0)
       IN  /\ \A i \in 1..nn :
                 /\ 2 + i <= Len(f)
                 /\ Len(f[2 + i]) >= 4
                 /\ \A j \in 1..4 : f[2 + i][j].k # "word"
           /\ \A i \in 1..ne :
                 /\ e0 + i <= Len(f)
                 /\ Len(f[e0 + i]) >= 5
                 /\ \A j \in 3..5 : f[e0 + i][j].k = "int"
                 /\ Len(f[e0 + i]) > 5 => f[e0 + i][6].k = "int"

\* C5: parse_fort14 raises, and returns nothing, when the counts line yields
\* fewer than 2 integers, when a node line is short or holds a non-numeric
\* field, or when an element line is short or holds a non-integer node id
\* (the end of the file inside a table included): the stages after the
\* tables are entered only for well-formed tables, the table stages always
\* take their step, and nothing follows a raise.
C5_MalformedTablesRaise ==
    /\ pc \notin {"Title", "Counts", "Nodes", "Elements", "Raised"} => TablesWellFormed(file)
    /\ pc \in {"Title", "Counts", "Nodes", "Elements"} =>
          ENABLED (ReadTitle \/ ReadCounts \/ ReadNode \/ ReadElement)
    /\ pc = "Raised" => error # "" /\ ~ENABLED Next

C5_Witness ==
    /\ pc = "Raised"
    /\ Len(nodes) = 1 /\ n_elements >= 1 /\ elements = << >>
    /\ pos > Len(file)

BoundaryStages == {"OpenHeader", "OpenBoundaries", "LandHeader", "LandBoundaries"}

\* no group header at p: end of file, or a first token int() rejects
HeaderMissing(f, p) ==
    \/ \A i \in p..Len(f) : f[i] = << >>
    \/ \E i \in p..Len(f) :
          /\ f[i] # << >> /\ f[i][1].k # "int"
          /\ \A j \in p..(i - 1) : f[j] = << >>

\* C6: after the tables parse_fort14 never raises: every step of a boundary
\* stage leaves no error; without an open header (end of file or a
\* non-integer first token) the Mesh is returned with both lists empty,
\* without a land header with the open boundaries parsed and no land one.
C6_BoundaryStagesDegrade ==
    [][/\ pc \in BoundaryStages => pc' # "Raised" /\ error' = ""
       /\ pc = "OpenHeader" /\ HeaderMissing(file, pos) =>
             pc' = "Returned" /\ open_boundaries' = << >> /\ land_boundaries' = << >>
       /\ pc = "LandHeader" /\ HeaderMissing(file, pos) =>
             /\ pc' = "Returned"
             /\ open_boundaries' = open_boundaries
             /\ land_boundaries' = << >>]_pvars

C6_Witness ==
    /\ pc = "Returned"
    /\ open_boundaries # << >> /\ open_boundaries[1] # << >>
    /\ land_boundaries = << >>
    /\ pos > 1 /\ pos - 1 <= Len(file) /\ file[pos - 1] = <<W>>

SameSegments(a, b) ==
    /\ a.open_segments = b.open_segments
    /\ a.land_segments = b.land_segments

\* C7, as stated: two files that differ only in the layout of one land
\* boundary's header ("m ib" on one line, or m and ib on two) get the same
\* open and land segments from parse_fort14_boundaries.
C7_AnyVariantPair ==
    pc = "BReturned" /\ earlier # << >> => SameSegments(earlier[1].result, bnd)

\* C7, amended: the same, for files in the standard layout in which every
\* declared node count is followed by that many id lines.
C7_ConsistentVariantPair ==
    pc = "BReturned" /\ earlier # << >> /\ <<earlier[1].file, file>> \in ConsistentPairs
        => SameSegments(earlier[1].result, bnd)

C7_Witness ==
    /\ pc = "BReturned" /\ earlier # << >>
    /\ <<earlier[1].file, file>> \in ConsistentPairs
    /\ bnd.via = "scan"
    /\ Len(bnd.land_segments) = 2 /\ Len(bnd.open_segments) = 1
    /\ bnd.land_segments[2] = [ib |-> Some(20), seg |-> <<0, 0>>]

-----------------------------------------------------------------------------
(* Claims about mesh/boundary.py, checked under LoopsSpec *)

Closed(loop) == loop[1] = loop[Len(loop)]

\* C8: every loop returned by walk_closed_loops, and so by compute_outer_loops,
\* is closed (first node id = last node id) for every list of boundary edges;
\* an open chain is never returned.
C8_LoopsClosed ==
    \A k \in 1..Len(done) :
        \A l \in 1..Len(done[k].loops) : Closed(done[k].loops[l])

\* the sides of an element as unordered pairs
SideSets(el) == {<<1, {el[2], el[3]}>>, <<2, {el[3], el[4]}>>, <<3, {el[4], el[2]}>>}

\* how many element sides join the node ids of the pair e
Multiplicity(els, e) ==
    Cardinality({ks \in (1..Len(els)) \X (1..3) : <<ks[2], e>> \in SideSets(els[ks[1]])})

\* at least one element, and no side of multiplicity 1
NoBoundaryEdge(els) ==
    /\ els # << >>
    /\ \A k \in 1..Len(els) : \A sd \in SideSets(els[k]) : Multiplicity(els, sd[2]) # 1

\* the node ids the elements reference, in the order they are written
Refs(els) == [k \in 1..(3 * Len(els)) |-> els[((k - 1) \div 3) + 1][((k - 1) % 3) + 2]]

FirstAt(refs, x) == CHOOSE i \in 1..Len(refs) : refs[i] = x /\ \A j \in 1..(i - 1) : refs[j] # x

\* ring = the distinct ids of refs in first-seen order, then the first id again
FirstSeenRing(ring, refs) ==
    /\ Len(ring) = Cardinality(Range(refs)) + 1
    /\ ring[Len(ring)] = ring[1]
    /\ \A i \in 1..(Len(ring) - 1) : ring[i] \in Range(refs)
    /\ \A i, j \in 1..(Len(ring) - 1) :
          i < j => FirstAt(refs, ring[i]) < FirstAt(refs, ring[j])

OuterCalls == {k \in 1..Len(done) : done[k].fn = "compute_outer_loops"}

C10_EdgeOrderIrrelevant ==
    \A a, b \in 1..Len(done) :
        (/\ done[a].fn = "walk_closed_loops"
         /\ done[b].fn = "walk_closed_loops"
         /\ Range(done[a].arg) = Range(done[b].arg))
        => done[a].loops = done[b].loops

-----------------------------------------------------------------------------
(* mesh/boundary.py: classify_outer_vs_holes.  Coordinates are integers, so
   the shoelace sum is exact; ring_area is half the sum, and the model keeps
   the sum itself (twice the area), which orders the loops the same way. *)

Abs(x) == IF x < 0 THEN 0 - x ELSE x

\* the sum s of ring_area over i in range(len(path) - 1), from index i on
RECURSIVE ShoelaceFrom(_, _, _)
ShoelaceFrom(path, nodes_xy, i) ==
    IF i >= Len(path) THEN 0
    ELSE (nodes_xy[path[i]][1] * nodes_xy[path[i + 1]][2]
          - nodes_xy[path[i + 1]][1] * nodes_xy[path[i]][2])
         + ShoelaceFrom(path, nodes_xy, i + 1)

\* 2 * ring_area(path)
ring_area(path, nodes_xy) == ShoelaceFrom(path, nodes_xy, 1)

\* areas that keep their sign
Areas_Signed(loops, nodes_xy) == [i \in 1..Len(loops) |-> ring_area(loops[i], nodes_xy)]

\* areas = [abs(ring_area(r)) for r in loops]
Areas(loops, nodes_xy) == [i \in 1..Len(loops) |-> Abs(ring_area(loops[i], nodes_xy))]

\* max(range(len(areas)), key=...): the first index of a largest area
MaxIdx(areas) ==
    CHOOSE i \in 1..Len(areas) :
        /\ \A j \in 1..Len(areas) : areas[j] <= areas[i]
        /\ \A j \in 1..(i - 1) : areas[j] < areas[i]

\* [loops[i] for i in range(len(loops)) if i != max_idx]
Without(loops, k) == SubSeq(loops, 1, k - 1) \o SubSeq(loops, k + 1, Len(loops))

classify_outer_vs_holes(loops, nodes_xy) ==
    IF loops = << >> THEN [outer |-> << >>, holes |-> << >>]
    ELSE LET max_idx == MaxIdx(Areas(loops, nodes_xy))
         IN  [outer |-> <<loops[max_idx]>>, holes |-> Without(loops, max_idx)]

\* a call of classify_outer_vs_holes
ClassifyOuterVsHoles ==
    /\ todo # << >>
    /\ Head(todo).fn = "classify_outer_vs_holes"
    /\ LET r == classify_outer_vs_holes(Head(todo).arg.loops, Head(todo).arg.nodes_xy)
       IN  done' = Append(done, [fn    |-> "classify_outer_vs_holes",
                                 arg   |-> Head(todo).arg,
                                 outer |-> r.outer,
                                 holes |-> r.holes])
    /\ todo' = Tail(todo)
    /\ UNCHANGED pvars

MaxLoops == 3

\* node coordinates: a mesh of five nodes, and the same nodes on one line
NodesXY ==
    {[n \in 1..5 |-> <<<<0, 0>>, <<2, 0>>, <<2, 2>>, <<0, 1>>, <<-1, -1>>>>[n]],
     [n \in 1..5 |-> <<n, 0>>]}

\* closed rings of either orientation, a ring of no area, and an open chain
Rings ==
    {<<1, 2, 3, 1>>, <<1, 3, 2, 1>>, <<1, 2, 4, 1>>, <<5, 3, 4, 5>>,
     <<1, 2, 1>>, <<1, 2, 3>>}

ClassifyCall(loops, xy) ==
    [fn |-> "classify_outer_vs_holes", arg |-> [loops |-> loops, nodes_xy |-> xy]]

ClassifyInit ==
    /\ ParserIdle
    /\ done = << >>
    /\ todo \in {<<ClassifyCall(ls, xy)>> : ls \in SeqsUpTo(Rings, MaxLoops), xy \in NodesXY}

ClassifyNext == ClassifyOuterVsHoles

ClassifySpec == ClassifyInit /\ [][ClassifyNext]_vars

\* the absolute value of the shoelace sum of a path: twice its absolute area
AbsShoelace(path, xy) ==
    LET term[i \in 0..(Len(path) - 1)] ==
            IF i = 0 THEN 0
            ELSE term[i - 1] + xy[path[i]][1] * xy[path[i + 1]][2]
                             - xy[path[i + 1]][1] * xy[path[i]][2]
        s == term[Len(path) - 1]
    IN  IF s >= 0 THEN s ELSE -s

\* hs is ls with its m-th element taken out, the others in their order
Removed(ls, m, hs) ==
    /\ Len(hs) = Len(ls) - 1
    /\ \A i \in 1..Len(hs) : hs[i] = IF i < m THEN ls[i] ELSE ls[i + 1]

\* C11: for a non-empty list of loops classify_outer_vs_holes returns exactly
\* one outer loop, of absolute shoelace area >= that of every loop, and as
\* holes all the other loops in their original order; for no loops it returns
\* an empty outer list and an empty holes list.
C11_OuterAndHolesPartition ==
    \A k \in 1..Len(done) :
        LET d  == done[k]
            ls == d.arg.loops
        IN  IF ls = << >>
            THEN d.outer = << >> /\ d.holes = << >>
            ELSE /\ Len(d.outer) = 1
                 /\ \E m \in 1..Len(ls) :
                       /\ d.outer[1] = ls[m]
                       /\ Removed(ls, m, d.holes)
                 /\ \A j \in 1..Len(ls) :
                       AbsShoelace(d.outer[1], d.arg.nodes_xy) >= AbsShoelace(ls[j], d.arg.nodes_xy)

\* a small loop, then the largest one wound clockwise, then a third
C11_Witness ==
    /\ done # << >>
    /\ done[1].arg.loops = <<<<1, 2, 4, 1>>, <<1, 3, 2, 1>>, <<1, 2, 1>>>>
    /\ done[1].arg.nodes_xy[3] = <<2, 2>>
    /\ done[1].outer = <<<<1, 3, 2, 1>>>>
    /\ done[1].holes = <<<<1, 2, 4, 1>>, <<1, 2, 1>>>>

\* C12: an undirected edge {i, j} is returned by
\* boundary_edges_from_counts(build_edge_counts(elements)) if and only if it
\* is a side of exactly one triangle, whatever the orientation; it is
\* returned once, smaller node id first, and the fourth node id of an
\* element contributes no edge.
C12_BoundaryEdgesExactlyOnce ==
    \A k \in OuterCalls :
        LET els   == done[k].arg
            edges == done[k].edges
        IN  /\ \A x \in 1..Len(edges) :
                  /\ edges[x][1] <= edges[x][2]
                  /\ Multiplicity(els, {edges[x][1], edges[x][2]}) = 1
                  /\ \A y \in 1..Len(edges) : edges[y] = edges[x] => y = x
            /\ \A n \in 1..Len(els) : \A sd \in SideSets(els[n]) :
                  Multiplicity(els, sd[2]) = 1
                  => \E x \in 1..Len(edges) : {edges[x][1], edges[x][2]} = sd[2]

\* a triangle with a fourth node id, and a triangle that shares its side 1-2
C12_Witness ==
    /\ done # << >>
    /\ done[1].fn = "compute_outer_loops"
    /\ done[1].arg = <<<<6, 1, 2, 3, 4>>, <<2, 1, 2, 4, 0>>>>
    /\ done[1].edges = <<<<2, 3>>, <<1, 3>>, <<2, 4>>, <<1, 4>>>>

-----------------------------------------------------------------------------
(* Further claims about io/fort14.py, checked under Spec *)

\* C13: the file handle opened by parse_fort14 is closed in every terminal
\* state of a call: after a return from any return point (the early returns
\* at the boundary headers included) and after every error raised in the
\* counts, node or element stage; it is open only while a stage is running.
C13_HandleClosedAtExit ==
    /\ pc \in {"Returned", "Raised", "BReturned"} => handle = "closed"
    /\ handle = "open" =>
          pc \in {"Title", "Counts", "Nodes", "Elements"} \cup BoundaryStages

\* an early return at the land header: two open boundaries, then the file ends
C13_Witness ==
    /\ pc = "Returned"
    /\ handle = "closed"
    /\ Len(open_boundaries) = 2
    /\ land_boundaries = << >>
    /\ pos > Len(file)

-----------------------------------------------------------------------------
(* cli.py: _resolve_from_catalog.  A path is the string that names it; the
   file system (working directory /c, one symbolic link) is the table of what
   Path.resolve() makes of each string.  A catalog is a dict, kept as the
   sequence of its [k, v] items in insertion order; an entry v is a function
   from the keys it holds to their values. *)

NoPath == "None"

\* Path(s).resolve(): relative names are taken from /c, /d/link.14 is a
\* symbolic link to /d/same.14
Resolve(s) ==
    CASE s = "same.14"     -> "/c/same.14"
      [] s = "/d/link.14"  -> "/d/same.14"
      [] s = "coast.shp"   -> "/c/coast.shp"
      [] s = "dem.tif"     -> "/c/dem.tif"
      [] OTHER             -> s

\* _norm_path (no variable and no ~ occurs in the names used)
NormPath(s) == Resolve(s)

\* os.path.isabs
IsAbs(s) == s \notin {"same.14", "coast.shp", "dem.tif"}

\* Path(s).stem
Stem(s) ==
    CASE s \in {"same.14", "/c/same.14", "/d/same.14", "/e/same.14"} -> "same"
      [] s = "/d/link.14"  -> "link"
      [] s = "/d/other.14" -> "other"
      [] s \in {"coast.shp", "/c/coast.shp", "/s/coast.shp"} -> "coast"
      [] OTHER -> "dem"

\* v.get(f, default)
Get(v, f, default) == IF f \in DOMAIN v THEN v[f] ELSE default

\* catalog.get(key): the entry of the key, or None
CatalogGet(catalog, key) ==
    IF \E i \in 1..Len(catalog) : catalog[i].k = key
    THEN catalog[CHOOSE i \in 1..Len(catalog) : catalog[i].k = key].v
    ELSE << >>

\* `not entry`: None or an empty dict
Falsy(entry) == DOMAIN entry = {}

\* the loop over catalog.items() that looks for a key of the same real path
RECURSIVE RealpathEntry(_, _, _)
RealpathEntry(catalog, key_path, i) ==
    IF i > Len(catalog) THEN << >>
    ELSE IF IsAbs(catalog[i].k) /\ NormPath(catalog[i].k) = key_path
         THEN catalog[i].v
         ELSE RealpathEntry(catalog, key_path, i + 1)

\* k_base of an item
KBase(item) == Stem(Get(item.v, "fort14_path", item.k))

\* candidates: the entries of the stem `base`
StemCandidates(catalog, base) ==
    SelectSeq(catalog, LAMBDA item : KBase(item) = base)

\* a lookup that takes the one entry of the same stem when no key matches
LookupEntry_ByStem(catalog, key_path) ==
    LET entry == CatalogGet(catalog, key_path)
        byreal == IF Falsy(entry) THEN RealpathEntry(catalog, key_path, 1) ELSE entry
        cands == StemCandidates(catalog, Stem(key_path))
    IN  IF Falsy(byreal) /\ Len(cands) = 1 THEN cands[1].v ELSE byreal

\* the entry a lookup by key or by real path finds
LookupEntry(catalog, key_path) ==
    LET entry == CatalogGet(catalog, key_path)
    IN  IF Falsy(entry) THEN RealpathEntry(catalog, key_path, 1) ELSE entry

\* entry.get(f) taken as a path when it is truthy
ResolvedPath(entry, f) ==
    IF Get(entry, f, NoPath) # NoPath THEN entry[f] ELSE NoPath

NormAll(ps) == [i \in 1..Len(ps) |-> NormPath(ps[i])]

NoMatch == [raised |-> FALSE, shp |-> NoPath, dem |-> NoPath,
            shp_candidates |-> << >>, dem_candidates |-> << >>]

Ambiguous == [raised |-> TRUE, shp |-> NoPath, dem |-> NoPath,
              shp_candidates |-> << >>, dem_candidates |-> << >>]

resolve_from_catalog(catalog, fort14_path) ==
    LET key_path == NormPath(fort14_path)
        base     == Stem(key_path)
        entry    == LookupEntry(catalog, key_path)
    IN  IF Falsy(entry)
        THEN IF StemCandidates(catalog, base) # << >> THEN Ambiguous ELSE NoMatch
        ELSE LET shp0 == ResolvedPath(entry, "shp_resolved")
                 dem0 == ResolvedPath(entry, "dem_resolved")
                 sc   == NormAll(Get(entry, "shp_candidates", << >>))
                 dc   == NormAll(Get(entry, "dem_candidates", << >>))
             IN  [raised |-> FALSE,
                  shp |-> IF shp0 = NoPath /\ sc # << >> THEN sc[1] ELSE shp0,
                  dem |-> IF dem0 = NoPath /\ dc # << >> THEN dc[1] ELSE dem0,
                  shp_candidates |-> sc,
                  dem_candidates |-> dc]

\* a call of _resolve_from_catalog
ResolveFromCatalog ==
    /\ todo # << >>
    /\ Head(todo).fn = "_resolve_from_catalog"
    /\ done' = Append(done, [fn     |-> "_resolve_from_catalog",
                             arg    |-> Head(todo).arg,
                             result |-> resolve_from_catalog(Head(todo).arg.catalog,
                                                             Head(todo).arg.fort14_path)])
    /\ todo' = Tail(todo)
    /\ UNCHANGED pvars

MaxEntries == 2

\* the fort.14 names that requests and catalog keys use
MeshPaths == {"/d/same.14", "/e/same.14", "/d/link.14", "same.14", "/d/other.14"}

\* the entries a key k can have: the empty dict, the entry of the test (no
\* candidates), an entry with resolved paths, one with candidates only and a
\* null shp_resolved, and one without fort14_path
EntriesOf(k) ==
    {<< >>,
     [fort14_path |-> k, shp_candidates |-> << >>, dem_candidates |-> << >>],
     [fort14_path |-> k, shp_candidates |-> <<"coast.shp">>, dem_candidates |-> <<"dem.tif">>,
      shp_resolved |-> "/s/coast.shp", dem_resolved |-> "/s/dem.tif"],
     [fort14_path |-> k, shp_candidates |-> <<"coast.shp">>, dem_candidates |-> << >>,
      shp_resolved |-> NoPath],
     [shp_candidates |-> <<"/s/coast.shp">>]}

CatalogItems == UNION {{[k |-> k, v |-> v] : v \in EntriesOf(k)} : k \in MeshPaths}

\* dicts: no key twice
Catalogs ==
    {c \in SeqsUpTo(CatalogItems, MaxEntries) :
        \A i, j \in 1..Len(c) : i # j => c[i].k # c[j].k}

CatalogInit ==
    /\ ParserIdle
    /\ done = << >>
    /\ todo \in {<<[fn |-> "_resolve_from_catalog", arg |-> [catalog |-> c, fort14_path |-> p]]>> :
                    c \in Catalogs, p \in MeshPaths}

CatalogNext == ResolveFromCatalog

CatalogSpec == CatalogInit /\ [][CatalogNext]_vars

\* the entries whose fort.14 (the fort14_path they hold, else their key) has
\* the stem of the requested file
SameStemEntries(catalog, req) ==
    {i \in 1..Len(catalog) :
        Stem(IF "fort14_path" \in DOMAIN catalog[i].v
             THEN catalog[i].v["fort14_path"] ELSE catalog[i].k) = Stem(NormPath(req))}

\* with no matching key: an error if some entry has the stem, else nothing
RaisesOrNothing(d) ==
    IF SameStemEntries(d.arg.catalog, d.arg.fort14_path) # {}
    THEN d.result.raised
    ELSE /\ ~d.result.raised
         /\ d.result.shp = NoPath /\ d.result.dem = NoPath
         /\ d.result.shp_candidates = << >> /\ d.result.dem_candidates = << >>

\* C14 as stated: when no catalog key equals the normalized absolute path of
\* the requested fort.14 file, _resolve_from_catalog raises RuntimeError if an
\* entry has the same stem and returns (None, None, [], []) if none has.
C14_NoEqualKey ==
    \A n \in 1..Len(done) :
        LET c == done[n].arg.catalog
        IN  (\A i \in 1..Len(c) : c[i].k # NormPath(done[n].arg.fort14_path))
            => RaisesOrNothing(done[n])

\* C14, amended: the same when no catalog key equals that path and no
\* absolute catalog key normalizes to it (a key that names the file through
\* a symbolic link is a match by path, not by basename).
C14_NoEqualOrEquivalentKey ==
    \A n \in 1..Len(done) :
        LET c  == done[n].arg.catalog
            kp == NormPath(done[n].arg.fort14_path)
        IN  (\A i \in 1..Len(c) :
                 c[i].k # kp /\ ~(IsAbs(c[i].k) /\ NormPath(c[i].k) = kp))
            => RaisesOrNothing(done[n])

\* the test: two entries of stem "same" in other directories, request same.14
C14_Witness ==
    /\ done # << >>
    /\ done[1].arg.fort14_path = "same.14"
    /\ Len(done[1].arg.catalog) = 2
    /\ done[1].arg.catalog[1].k = "/d/same.14"
    /\ done[1].arg.catalog[2].k = "/e/same.14"
    /\ "shp_resolved" \in DOMAIN done[1].arg.catalog[1].v
    /\ done[1].result.raised

\* the message of the 'invalid fort.14' failure of each stage
StageMessage ==
    [Counts   |-> "Invalid fort.14: missing counts line",
     Nodes    |-> "Invalid fort.14: node line too short",
     Elements |-> "Invalid fort.14: element line too short"]

\* C15: every error parse_fort14 raises is the 'invalid fort.14' failure and
\* names its stage (counts, node or element), for a line with too few fields
\* and equally for a field that fails int or float conversion.
C15_ErrorsNameStage ==
    [][\A st \in {"Counts", "Nodes", "Elements"} :
          (pc = st /\ pc' = "Raised") => error' = StageMessage[st]]_vars

\* line i of f comes after the boundary header, the first line at or after p
\* that holds an integer
AfterHeader(f, p, i) == \E j \in p..(i - 1) : ParseInts(f[j]) # << >>

\* the lines p..q-1 of f after the header that hold two or more integers (so
\* are no count lines) hold only ids of the chain
IdsKept(f, p, q, chain) ==
    \A i \in p..(q - 1) :
        (AfterHeader(f, p, i) /\ Len(ParseInts(f[i])) >= 2)
        => \A x \in 1..Len(ParseInts(f[i])) : \E y \in 1..Len(chain) : chain[y] = ParseInts(f[i])[x]

\* C16: every line with integers that _parse_one_boundary consumes is the
\* boundary header, a count line, or a line whose node ids all appear in the
\* returned chain: it never consumes a line whose ids it then drops.
C16_NoConsumedLineDropped ==
    [][/\ (pc = "OpenBoundaries" /\ Len(open_boundaries') = Len(open_boundaries) + 1)
          => IdsKept(file, pos, pos', open_boundaries'[Len(open_boundaries')])
       /\ (pc = "LandBoundaries" /\ Len(land_boundaries') = Len(land_boundaries) + 1)
          => IdsKept(file, pos, pos', land_boundaries'[Len(land_boundaries')])]_vars

-----------------------------------------------------------------------------
(* plot/viz.py: _build_open_boundary_segments.  A node is (nid, x, y, depth)
   with integer coordinates, a point is <<x, y>>; np.allclose of two points
   with integer coordinates below 10^5 is their equality. *)

\* n in id_to_xy
Known(nodes_, n) == \E i \in 1..Len(nodes_) : nodes_[i][1] = n

\* id_to_xy[n]: a dict comprehension keeps the last node of an id
IdToXY(nodes_, n) ==
    LET i == CHOOSE i \in 1..Len(nodes_) :
                 nodes_[i][1] = n /\ \A j \in (i + 1)..Len(nodes_) : nodes_[j][1] # n
    IN  <<nodes_[i][2], nodes_[i][3]>>

\* arr: the points of the ids of b that are in id_to_xy
RECURSIVE Points(_, _)
Points(nodes_, b) ==
    IF b = << >> THEN << >>
    ELSE (IF Known(nodes_, Head(b)) THEN <<IdToXY(nodes_, Head(b))>> ELSE << >>)
         \o Points(nodes_, Tail(b))

AllClose(a, b) == a = b

\* prev_last = None
NoPoint == << >>

\* `if prev_last is not None and ... np.allclose(arr[0], prev_last): arr = arr[1:, :]`
DropJoined(arr, prev_last) ==
    IF prev_last # NoPoint /\ Len(arr) >= 1 /\ AllClose(arr[1], prev_last)
    THEN Tail(arr)
    ELSE arr

\* the loop over mesh.open_boundaries
RECURSIVE SegmentsFrom(_, _, _, _)
SegmentsFrom(nodes_, bs, segments, prev_last) ==
    IF bs = << >> THEN segments
    ELSE LET pts == Points(nodes_, Head(bs))
             arr == DropJoined(pts, prev_last)
         IN  IF pts = << >>
             THEN SegmentsFrom(nodes_, Tail(bs), segments, prev_last)
             ELSE IF arr # << >>
                  THEN SegmentsFrom(nodes_, Tail(bs), Append(segments, arr), arr[Len(arr)])
                  ELSE SegmentsFrom(nodes_, Tail(bs), segments, NoPoint)

build_open_boundary_segments(mesh) ==
    SegmentsFrom(mesh.nodes, mesh.open_boundaries, << >>, NoPoint)

\* a call of _build_open_boundary_segments
BuildOpenBoundarySegments ==
    /\ todo # << >>
    /\ Head(todo).fn = "_build_open_boundary_segments"
    /\ done' = Append(done, [fn       |-> "_build_open_boundary_segments",
                             arg      |-> Head(todo).arg,
                             segments |-> build_open_boundary_segments(Head(todo).arg)])
    /\ todo' = Tail(todo)
    /\ UNCHANGED pvars

MaxBoundaries == 3

\* the nodes of the mesh: a triangle, and a node 4 at the place of node 2
MeshNodes == <<<<1, 0, 0, -5>>, <<2, 1, 0, -5>>, <<3, 0, 1, -5>>, <<4, 1, 0, -5>>>>

\* open boundaries: chains of the mesh, a chain that names a node twice, a
\* single node, an id the mesh does not have, no id at all
OpenChains ==
    {<<1, 2>>, <<2, 3>>, <<3, 1>>, <<2, 2, 3>>, <<4, 3>>, <<2>>, <<9>>, << >>}

SegmentsInit ==
    /\ ParserIdle
    /\ done = << >>
    /\ todo \in {<<[fn |-> "_build_open_boundary_segments",
                    arg |-> [nodes |-> MeshNodes, open_boundaries |-> bs]]>> :
                    bs \in SeqsUpTo(OpenChains, MaxBoundaries)}

SegmentsNext == BuildOpenBoundarySegments

SegmentsSpec == SegmentsInit /\ [][SegmentsNext]_vars

\* C17: in the list _build_open_boundary_segments returns, the first point of
\* each polyline differs from the last point of the polyline before it.
C17_NoImplicitJoin ==
    \A n \in 1..Len(done) :
        \A i \in 2..Len(done[n].segments) :
            done[n].segments[i][1] # done[n].segments[i - 1][Len(done[n].segments[i - 1])]

-----------------------------------------------------------------------------
(* Claims about the choice of _parse_one_boundary, checked under Spec.  A
   step of ParseOpenBoundary or ParseLandBoundary returns one chain and
   leaves the stream at pos'. *)

OpenStep == pc = "OpenBoundaries" /\ Len(open_boundaries') = Len(open_boundaries) + 1
LandStep == pc = "LandBoundaries" /\ Len(land_boundaries') = Len(land_boundaries) + 1

\* P(chain, position) holds of every boundary a step returns
EveryBoundary(P(_, _)) ==
    /\ OpenStep => P(open_boundaries'[Len(open_boundaries')], pos')
    /\ LandStep => P(land_boundaries'[Len(land_boundaries')], pos')

\* the score of a chain: its length, whether first id = last id, and how many
\* of its ids are node ids of the mesh (chains of one length have their
\* fractions of known ids in the order of these counts)
ClosedRing(chain) == chain # << >> /\ chain[1] = chain[Len(chain)]
KnownCount(chain) ==
    Cardinality({i \in 1..Len(chain) : \E n \in 1..Len(nodes) : nodes[n][1] = chain[i]})

Higher(x, y) ==
    \/ Len(x) > Len(y)
    \/ /\ Len(x) = Len(y)
       /\ \/ ClosedRing(x) /\ ~ClosedRing(y)
          \/ (ClosedRing(x) <=> ClosedRing(y)) /\ KnownCount(x) > KnownCount(y)

\* the header of the boundary at pos and the two candidates read after it
HeaderHere == ReadNonemptyInts(file, pos)
CandA == CandidateA(file, HeaderHere.pos, HeaderHere.ints)
CandB == CandidateB(file, HeaderHere.pos, SegmentCount(HeaderHere.ints))
BothCandidates == ~HeaderHere.eof /\ Len(HeaderHere.ints) = 1 /\ CandA.ok

HigherReturned(chain, q) ==
    BothCandidates =>
        /\ Higher(CandB.nodes, CandA.vals) => chain = CandB.nodes
        /\ Higher(CandA.vals, CandB.nodes) => chain = CandA.vals

\* C18: for a header of exactly one integer _parse_one_boundary returns the
\* candidate of the strictly higher score (length, closed ring, known ids);
\* a strictly longer candidate B is returned instead of a shorter A.
C18_HigherScoreReturned == [][EveryBoundary(HigherReturned)]_vars

TieReturnsB(chain, q) ==
    (BothCandidates /\ ~Higher(CandB.nodes, CandA.vals) /\ ~Higher(CandA.vals, CandB.nodes))
    => chain = CandB.nodes /\ q = CandB.pos

\* C19: when candidates A and B have equal scores, the chain returned and the
\* stream position committed are candidate B's.
C19_TiePrefersB == [][EveryBoundary(TieReturnsB)]_vars

HeaderIdsReturned(chain, q) ==
    (~HeaderHere.eof /\ Len(HeaderHere.ints) > 1)
    => chain = HeaderHere.ints /\ q = HeaderHere.pos

\* C20: when the header line holds more than one integer, _parse_one_boundary
\* returns exactly the header's integers, in order, and consumes no line
\* after the header.
C20_MultiIntHeaderIsChain == [][EveryBoundary(HeaderIdsReturned)]_vars

\* the candidate _parse_one_boundary selects at p under total_hint, as held in
\* memory after the speculation, and where that candidate's speculative read
\* ended
Speculated(f, p, total_hint) ==
    LET h == ReadNonemptyInts(f, p)
        a == CandidateA(f, h.pos, h.ints)
        b == CandidateB(f, h.pos, SegmentCount(h.ints))
    IN  IF h.eof THEN [nodes |-> << >>, pos |-> h.pos]
        ELSE IF Selection(a, b.nodes, total_hint) = "A"
        THEN [nodes |-> a.vals, pos |-> PeekExtent(f, h.pos, h.ints[1])]
        ELSE [nodes |-> b.nodes, pos |-> b.pos]

\* the call that produced the boundary ran with the group's hint or, in the
\* retry of a group of one boundary, without a hint
CommitAgrees(total_hint, chain, q) ==
    \E hint \in {total_hint, None} :
        Speculated(file, pos, hint) = [nodes |-> chain, pos |-> q]

\* C21: the commit step of _parse_one_boundary agrees with the speculation
\* step: the chain returned is the selected in-memory candidate (a_nodes or
\* b_nodes) and the stream is left where that candidate's speculative read
\* ended.
C21_CommitAgreesWithSpeculation ==
    [][ /\ OpenStep => CommitAgrees(open_total_nodes,
                           open_boundaries'[Len(open_boundaries')], pos')
        /\ LandStep => CommitAgrees(land_total_nodes,
                           land_boundaries'[Len(land_boundaries')], pos') ]_vars

\* both candidates were built and differ, in ids and in extent, and the one
\* committed is B: a land group has been reached after an open boundary that
\* the hint selected in segment style
C21_Witness ==
    /\ pc = "LandHeader"
    /\ Len(open_boundaries) = 1
    /\ \E p \in 1..Len(file) :
          LET h == ReadNonemptyInts(file, p)
              a == CandidateA(file, h.pos, h.ints)
              b == CandidateB(file, h.pos, SegmentCount(h.ints))
          IN  /\ ~h.eof /\ a.ok /\ a.vals # b.nodes
              /\ PeekExtent(file, h.pos, h.ints[1]) # b.pos
              /\ Selection(a, b.nodes, open_total_nodes) = "B"
              /\ open_boundaries[1] = b.nodes
              /\ pos = b.pos

\* the integer tokens of the non-blank lines from p on, line after line,
\* until at least n are collected or the file ends
RECURSIVE Accumulated(_, _, _)
Accumulated(f, p, n) ==
    IF n <= 0 THEN << >>
    ELSE LET r == ReadNonemptyLine(f, p)
         IN  IF r.eof THEN << >>
             ELSE ParseInts(r.line)
                      \o Accumulated(f, r.pos, n - Len(ParseInts(r.line)))

AtBoundary == pc \in {"OpenBoundaries", "LandBoundaries"}

\* C22: for a header with the single integer H >= 1, candidate A holds the
\* first H of the integer tokens accumulated from the following non-blank
\* lines, also when a line holds several ids; such a line does not make
\* candidate A unavailable.
C22_CandidateAAccumulates ==
    (AtBoundary /\ ~HeaderHere.eof /\ SingleCount(HeaderHere.ints)) =>
        LET H   == HeaderHere.ints[1]
            acc == Accumulated(file, HeaderHere.pos, H)
        IN  Len(acc) >= H => CandA.ok /\ CandA.vals = SubSeq(acc, 1, H)

\* a segment line 'N id_1 ... id_k' read as an inline count: the k inline ids,
\* then the remaining N - k ids from the following one-id lines
InlineSegment(f, q, seg_ints) ==
    LET N    == seg_ints[1]
        k    == Len(seg_ints) - 1
        more == ReadExactIntLines(f, q, N - k)
    IN  [nodes |-> Tail(seg_ints) \o more.vals, pos |-> more.pos]

\* C23: in candidate B a segment line with several integers 'N id_1 ... id_k'
\* (k <= N) contributes the k inline ids and the N - k ids of the following
\* lines to the chain, and not the count N; here for the first segment of the
\* boundary, the later segments being read as the code reads them.
C23_InlineCountNotInChain ==
    (AtBoundary /\ ~HeaderHere.eof) =>
        LET S        == SegmentCount(HeaderHere.ints)
            r        == ReadNonemptyLine(file, HeaderHere.pos)
            seg_ints == ParseInts(r.line)
            seg      == InlineSegment(file, r.pos, seg_ints)
        IN  (~r.eof /\ Len(seg_ints) >= 2 /\ seg_ints[1] >= Len(seg_ints) - 1) =>
                CandB.nodes = seg.nodes \o CandidateB(file, seg.pos, S - 1).nodes

\* how far the two speculative reads of the call at pos advance the stream:
\* the peek of candidate A (when the header is a single count) and the
\* simulated read of candidate B
SpeculationWithin(q) ==
    ~HeaderHere.eof =>
        /\ SingleCount(HeaderHere.ints) =>
              PeekExtent(file, HeaderHere.pos, HeaderHere.ints[1]) <= q
        /\ CandB.pos <= q

\* C24: during one call of _parse_one_boundary no speculative read advances
\* the stream past the position at which the call commits.
C24_SpeculationBounded ==
    [][(OpenStep \/ LandStep) => SpeculationWithin(pos')]_vars

-----------------------------------------------------------------------------
(* Further claims about walk_closed_loops, checked under LoopsSpec *)

WalkCalls == {k \in 1..Len(done) : done[k].fn = "walk_closed_loops"}

\* C25: every loop returned by walk_closed_loops visits at least 3 distinct
\* node ids, for every input edge list; a walk over fewer is discarded.
C25_ThreeDistinctNodes ==
    \A k \in WalkCalls :
        \A l \in 1..Len(done[k].loops) : Cardinality(Range(done[k].loops[l])) >= 3

\* the positions of a loop where id x stands
Positions(loop, x) == {i \in 1..Len(loop) : loop[i] = x}

\* the start id only at the first and the last position, every other id once
SimpleCycle(loop) ==
    /\ Positions(loop, loop[1]) \subseteq {1, Len(loop)}
    /\ \A i \in 2..Len(loop) :
          loop[i] # loop[1] => Positions(loop, loop[i]) = {i}

\* C26: each walk of walk_closed_loops ends the first time it returns to its
\* start node: every returned loop is a simple cycle, also when a boundary
\* node has more than two incident boundary edges.
C26_SimpleCycles ==
    \A k \in WalkCalls :
        \A l \in 1..Len(done[k].loops) : SimpleCycle(done[k].loops[l])

\* the steps <<l, i>> of the returned loops: loop l goes from its i-th to its
\* (i+1)-th node
Traversals(loops) ==
    UNION {{<<l, i>> : i \in 1..(Len(loops[l]) - 1)} : l \in 1..Len(loops)}
EdgeOf(loops, t) == {loops[t[1]][t[2]], loops[t[1]][t[2] + 1]}

\* C27: within one call of walk_closed_loops every undirected boundary edge is
\* traversed at most once, in one loop or across loops, and every pair of
\* consecutive nodes of a returned loop is an edge of the input.
C27_EdgesTraversedOnce ==
    \A k \in WalkCalls :
        LET loops == done[k].loops
            edges == done[k].arg
        IN  /\ \A t, u \in Traversals(loops) :
                  EdgeOf(loops, t) = EdgeOf(loops, u) => t = u
            /\ \A t \in Traversals(loops) :
                  \E x \in 1..Len(edges) : {edges[x][1], edges[x][2]} = EdgeOf(loops, t)

-----------------------------------------------------------------------------
(* Claims about the two boundary parsers together, checked under Spec *)

\* every node id reduced by 1
Reduced(chain) == [i \in 1..Len(chain) |-> chain[i] - 1]

\* C28: for a file in the standard layout, whenever the integer-only scan of
\* parse_fort14_boundaries succeeds, its open segments are the
\* open_boundaries of parse_fort14 with every id reduced by 1, boundary by
\* boundary, and its land segments' chains are the land_boundaries likewise.
C28_ParsersAgree ==
    (pc = "BReturned" /\ file \in FilesStandard /\ bnd.via = "scan") =>
        /\ bnd.open_segments = [i \in 1..Len(open_boundaries) |-> Reduced(open_boundaries[i])]
        /\ [i \in 1..Len(bnd.land_segments) |-> bnd.land_segments[i].seg]
              = [i \in 1..Len(land_boundaries) |-> Reduced(land_boundaries[i])]

\* a chain of parse_fort14 as 0-based indices: the ids from 1 on, each
\* reduced by 1
Converted(chain) ==
    LET FromOne(n) == n >= 1
    IN  Reduced(SelectSeq(chain, FromOne))

\* the converted chains that the range check of the mesh lets through
ConvertedChains(chains) ==
    LET InMesh(seg) == \A i \in 1..Len(seg) : seg[i] >= 0 /\ seg[i] < Len(nodes)
    IN  SelectSeq([i \in 1..Len(chains) |-> Converted(chains[i])], InMesh)

\* C29: parse_fort14_boundaries ends with a result and no error after
\* parse_fort14 has returned;
\* when its integer-only scan fails, nothing it scanned is kept: the open and
\* land segments are parse_fort14's chains converted to 0-based indices (those
\* within the mesh), and every land segment carries ibtype None.
C29_FallbackFromParser ==
    /\ pc = "BReturned" => bnd.via \in {"scan", "fallback"} /\ error = ""
    /\ (pc = "BReturned" /\ bnd.via = "fallback") =>
          /\ bnd.open_segments = ConvertedChains(open_boundaries)
          /\ [i \in 1..Len(bnd.land_segments) |-> bnd.land_segments[i].seg]
                = ConvertedChains(land_boundaries)
          /\ \A i \in 1..Len(bnd.land_segments) : bnd.land_segments[i].ib = None

\* the scan read an open segment and a land segment and then met the end of
\* the file; the segments returned are those of parse_fort14
C29_Witness ==
    /\ pc = "BReturned"
    /\ bnd.via = "fallback"
    /\ bnd.open_segments # << >>
    /\ bnd.land_segments # << >>
    /\ LET p0   == SkipLines(file, SkipLines(file, ReadNInts(file, 2, 2).pos, n_nodes), n_elements)
           NOPE == ReadNInts(file, p0, 1)
           NBOU == ReadNInts(file, NOPE.pos, 1)
           op   == ScanOpen(file, NBOU.pos, NOPE.vals[1])
           NBOB == ReadNInts(file, op.pos, 1)
           m_ib == ReadNInts(file, ReadNInts(file, NBOB.pos, 1).pos, 2)
       IN  /\ ~NOPE.eof /\ ~NBOU.eof /\ ~op.eof /\ op.segs # << >>
           /\ ~NBOB.eof /\ ~m_ib.eof
           /\ ~Scan(file, n_nodes, n_elements).ok

-----------------------------------------------------------------------------
(* walk_closed_loops step by step: the call in progress is the frame done[1],
   with the locals of the function and its position `at`:
     "for"       at the head of `for start in list(nbrs.keys())`, k-th key next
     "while"     at the head of `while True`
     "returned"  after `return loops` *)

Frame(arg, nbrs, k, used, loops, at, start, cur, nxt, loop) ==
    [fn |-> "walk_closed_loops", arg |-> arg, nbrs |-> nbrs, k |-> k,
     used |-> used, loops |-> loops, at |-> at, start |-> start, cur |-> cur,
     nxt |-> nxt, loop |-> loop]

\* the lists of edges walk_closed_loops is called on
\* (pairs as key() orders them, a pair of one id twice and a pair listed
\* twice included)
KeyedPairLists == SeqsUpTo({e \in Pairs : e[1] <= e[2]}, MaxEdges)
WalkLists == EdgeLists \cup KeyedPairLists \cup PendantLists

\* the call, on any of the lists: the adjacency is built; no start has been
\* looked at
WalkBegin ==
    /\ todo = << >>
    /\ done = << >>
    /\ \E l \in WalkLists :
          done' = <<Frame(l, Adjacency(l), 1, {}, << >>, "for", 0, 0, 0, << >>)>>
    /\ UNCHANGED <<todo, pvars>>

\* one iteration of the for loop up to the head of `while True`, or the return
\* when the keys are exhausted
WalkStart ==
    /\ done # << >>
    /\ done[1].at = "for"
    /\ LET fr == done[1]
       IN  IF fr.k > Len(fr.nbrs)
           THEN done' = <<[fr EXCEPT !.at = "returned"]>>
           ELSE LET start == fr.nbrs[fr.k].n
                    adj   == fr.nbrs[fr.k].adj
                IN  IF \A v \in Range(adj) : Key(start, v) \in fr.used
                    THEN done' = <<[fr EXCEPT !.k = fr.k + 1]>>
                    ELSE done' = <<[fr EXCEPT !.at = "while", !.start = start,
                                              !.cur = start, !.nxt = Sorted(adj)[1],
                                              !.loop = <<start>>]>>
    /\ UNCHANGED <<todo, pvars>>

\* one pass of `while True`; on break the loop is closed and kept or dropped,
\* and the for loop goes on
WalkPass ==
    /\ done # << >>
    /\ done[1].at = "while"
    /\ LET fr    == done[1]
           used1 == fr.used \cup {Key(fr.cur, fr.nxt)}
           loop1 == Append(fr.loop, fr.nxt)
           cand  == Candidates(fr.nbrs, used1, fr.cur, fr.nxt)
           break == [fr EXCEPT !.used = used1, !.loop = loop1, !.cur = fr.nxt,
                               !.at = "for", !.k = fr.k + 1,
                               !.loops = KeepLoop(fr.loops, CloseLoop(fr.nbrs, loop1))]
           go(n) == [fr EXCEPT !.used = used1, !.loop = loop1, !.cur = fr.nxt,
                               !.nxt = n]
       IN  IF cand = << >>
           THEN IF fr.nxt = loop1[1]
                THEN done' = <<break>>
                ELSE IF /\ Key(fr.nxt, loop1[1]) \notin used1
                        /\ loop1[1] \in Range(NbrsOf(fr.nbrs, fr.nxt))
                     THEN done' = <<go(loop1[1])>>
                     ELSE done' = <<break>>
           ELSE IF fr.nxt = fr.start /\ cand[1] = loop1[2]
                THEN done' = <<break>>
                ELSE done' = <<go(cand[1])>>
    /\ UNCHANGED <<todo, pvars>>

WalkInit ==
    /\ ParserIdle
    /\ done = << >>
    /\ todo = << >>

WalkNext ==
    \/ WalkBegin
    \/ WalkStart
    \/ WalkPass

\* the interpreter runs the call on: a step that can be taken is taken
WalkSpec == WalkInit /\ [][WalkNext]_vars /\ WF_vars(WalkNext)

WalkReturned == done # << >> /\ done[1].at = "returned"

\* a pass of the inner walk that is not the first of its walk: the loop holds
\* more than the start
LaterPass == done # << >> /\ done[1].at = "while" /\ Len(done[1].loop) >= 2

\* the pass marks the edge cur-nxt, and the edge was not marked before
MarksUnusedEdge ==
    /\ Key(done[1].cur, done[1].nxt) \notin done[1].used
    /\ done'[1].used = done[1].used \cup {Key(done[1].cur, done[1].nxt)}

\* C30: walk_closed_loops terminates on every finite list of boundary edges
\* (self-loops, duplicated edges, nodes with more than two incident edges):
\* every call returns, and each pass of the inner walk after the first marks
\* a previously unused edge as used.
C30_WalkTerminates ==
    /\ <>WalkReturned
    /\ [][LaterPass => MarksUnusedEdge]_vars

\* a call returned after a walk of five passes around a node with three
\* incident edges
C30_Witness ==
    /\ WalkReturned
    /\ done[1].arg = <<<<1, 2>>, <<1, 3>>, <<1, 4>>, <<2, 3>>>>
    /\ done[1].loops = <<<<1, 2, 3, 1, 4, 1>>>>
    /\ Cardinality(done[1].used) = 4

====
